---- MODULE Spec2Model ----
(***************************************************************************)
(* A model of roff2tex.py: the RUNOFF-to-TeX transpiler.                   *)
(*                                                                         *)
(* A line is a sequence of lexemes (strings).  In prose every lexeme is a  *)
(* single character; in a directive line the keyword, a word, a number or  *)
(* a quoted string is one lexeme, as pyparsing's tokens are.  A Python     *)
(* string of one character and that character are the same TLA+ string.    *)
(***************************************************************************)
EXTENDS Integers, Sequences, FiniteSets, TLC

VARIABLES
    flagchars,      \* the bidict, as its forward map: trigger char -> flag name
    in_literal,     \* global in_literal
    in_appendices,  \* global in_appendices
    stdout,         \* what print() wrote, one record per call
    stderr,         \* what sys.stderr.write() and the interpreter's traceback wrote
    lnum,           \* the driver's line counter
    line,           \* the driver's loop variable: the last line read, rstrip()ped
    pc,             \* "running" | "exited" (sys.exit) | "raised" (uncaught exception) | "done"
    call            \* the frame of a call of ireplace that is followed step by step

vars == <<flagchars, in_literal, in_appendices, stdout, stderr, lnum, line, pc, call>>

(***************************************************************************)
(* Bounds of the model.                                                    *)
(***************************************************************************)
MaxLines == 3     \* input lines read in one run of the driver
MaxLen == 3       \* length of a prose line given to textline

(***************************************************************************)
(* Characters and str methods.                                             *)
(***************************************************************************)
LowerLetters ==
    <<"a","b","c","d","e","f","g","h","i","j","k","l","m",
      "n","o","p","q","r","s","t","u","v","w","x","y","z">>

UpperLetters ==
    <<"A","B","C","D","E","F","G","H","I","J","K","L","M",
      "N","O","P","Q","R","S","T","U","V","W","X","Y","Z">>

\* str.upper() of one character
Upper(ch) ==
    IF \E i \in DOMAIN LowerLetters : LowerLetters[i] = ch
    THEN UpperLetters[CHOOSE i \in DOMAIN LowerLetters : LowerLetters[i] = ch]
    ELSE ch

\* str.lower() of one character
Lower(ch) ==
    IF \E i \in DOMAIN UpperLetters : UpperLetters[i] = ch
    THEN LowerLetters[CHOOSE i \in DOMAIN UpperLetters : UpperLetters[i] = ch]
    ELSE ch

\* str.lower() of a string
LowerStr(s) == [i \in DOMAIN s |-> Lower(s[i])]

Whitespace == {" ", "\t"}

\* str.rstrip()
RECURSIVE RStrip(_)
RStrip(s) ==
    IF Len(s) > 0 /\ s[Len(s)] \in Whitespace
    THEN RStrip(SubSeq(s, 1, Len(s) - 1))
    ELSE s

\* str.lstrip()
RECURSIVE LStrip(_)
LStrip(s) ==
    IF Len(s) > 0 /\ s[1] \in Whitespace
    THEN LStrip(Tail(s))
    ELSE s

\* str.strip()
Strip(s) == LStrip(RStrip(s))

\* str.find(old, idx) as a 1-based index: the first k >= from where old occurs
\* in text, or 0 (Python's -1) when there is none
Find(text, old, from) ==
    LET hits == { k \in from..(Len(text) - Len(old) + 1) :
                    SubSeq(text, k, k + Len(old) - 1) = old }
    IN IF hits = {} THEN 0 ELSE CHOOSE k \in hits : \A h \in hits : k <= h

\* str.replace(old, new) for a one-character old
RECURSIVE Replace(_, _, _)
Replace(s, old, new) ==
    IF s = <<>> THEN <<>>
    ELSE (IF Head(s) = old THEN new ELSE <<Head(s)>>) \o Replace(Tail(s), old, new)

(***************************************************************************)
(* ireplace: the case-insensitive replace.  idx is Python's 0-based index. *)
(***************************************************************************)
RECURSIVE ireplace_from(_, _, _, _)
ireplace_from(old, new, text, idx) ==
    IF ~(idx < Len(text)) THEN text
    ELSE LET index_l == Find(LowerStr(text), LowerStr(old), idx + 1)
         IN IF index_l = 0 THEN text
            ELSE ireplace_from(old, new,
                     SubSeq(text, 1, index_l - 1) \o new
                         \o SubSeq(text, index_l + Len(old), Len(text)),
                     (index_l - 1) + Len(new))

ireplace(old, new, text) == ireplace_from(old, new, text, 0)

\* no call of ireplace is followed
NoCall == [pc |-> "none"]

\* the frame as ireplace is entered: `idx = 0`
Enter(old, new, text) ==
    [pc |-> "while", old |-> old, new |-> new, text |-> text, idx |-> 0, arg |-> text]

\* the body of the while loop with the scan resumed where the match began
ireplace_body_ResumeAtMatch(f) ==
    LET index_l == Find(LowerStr(f.text), LowerStr(f.old), f.idx + 1)
    IN IF index_l = 0 THEN [f EXCEPT !.pc = "returned"]
       ELSE [f EXCEPT !.text = SubSeq(f.text, 1, index_l - 1) \o f.new
                                   \o SubSeq(f.text, index_l + Len(f.old), Len(f.text)),
                      !.idx = index_l - 1]

\* the body of the while loop, on the frame f
ireplace_body(f) ==
    LET index_l == Find(LowerStr(f.text), LowerStr(f.old), f.idx + 1)
    IN IF index_l = 0 THEN [f EXCEPT !.pc = "returned"]
       ELSE [f EXCEPT !.text = SubSeq(f.text, 1, index_l - 1) \o f.new
                                   \o SubSeq(f.text, index_l + Len(f.old), Len(f.text)),
                      !.idx = (index_l - 1) + Len(f.new)]

(***************************************************************************)
(* time.strftime on the wall clock of the run.                             *)
(***************************************************************************)
Now == [Y |-> 2026, m |-> 11, d |-> 6, H |-> 4, M |-> 47, S |-> 9]

Digits == <<"0","1","2","3","4","5","6","7","8","9">>

TwoDigits(n) == <<Digits[((n \div 10) % 10) + 1], Digits[(n % 10) + 1]>>

FourDigits(n) == TwoDigits(n \div 100) \o TwoDigits(n % 100)

MonthNames ==
    << <<"J","a","n","u","a","r","y">>, <<"F","e","b","r","u","a","r","y">>,
       <<"M","a","r","c","h">>, <<"A","p","r","i","l">>, <<"M","a","y">>,
       <<"J","u","n","e">>, <<"J","u","l","y">>, <<"A","u","g","u","s","t">>,
       <<"S","e","p","t","e","m","b","e","r">>, <<"O","c","t","o","b","e","r">>,
       <<"N","o","v","e","m","b","e","r">>, <<"D","e","c","e","m","b","e","r">> >>

strftime(fmt) ==
    CASE fmt = "%d %B %Y" ->
             TwoDigits(Now.d) \o <<" ">> \o MonthNames[Now.m] \o <<" ">> \o FourDigits(Now.Y)
      [] fmt = "%H:%M:%S" ->
             TwoDigits(Now.H) \o <<":">> \o TwoDigits(Now.M) \o <<":">> \o TwoDigits(Now.S)
      [] fmt = "%Y" -> FourDigits(Now.Y)
      [] fmt = "%m" -> TwoDigits(Now.m)
      [] fmt = "%d" -> TwoDigits(Now.d)
      [] fmt = "%H" -> TwoDigits(Now.H)
      [] fmt = "%M" -> TwoDigits(Now.M)
      [] fmt = "%S" -> TwoDigits(Now.S)

(***************************************************************************)
(* The Flag Table: bidict's forward map and its inverse view.              *)
(***************************************************************************)
\* flagchars.inverse[name]
Inverse(name) == CHOOSE c \in DOMAIN flagchars : flagchars[c] = name

\* the values of the bidict
FlagValues == { flagchars[c] : c \in DOMAIN flagchars }

(***************************************************************************)
(* textline: the per-character scan, then substitution, then escaping.     *)
(***************************************************************************)
\* the fragment '\\underline{'
UnderlineOpen == <<"\\","u","n","d","e","r","l","i","n","e","{">>

\* the locals with pending-uppercase kept from the line printed before
ScanStart_Carried ==
    [so |-> <<>>, eol |-> <<>>, f_accept |-> FALSE,
     f_uppercase |-> /\ stdout[Len(stdout)].f = "%s"
                     /\ ~in_literal
                     /\ Len(line) > 0
                     /\ line[Len(line)] \in DOMAIN flagchars
                     /\ flagchars[line[Len(line)]] = "uppercase",
     f_substitute |-> FALSE, err |-> <<>>]

\* the locals of textline as the for loop starts
ScanStart ==
    [so |-> <<>>, eol |-> <<>>, f_accept |-> FALSE, f_uppercase |-> FALSE,
     f_substitute |-> FALSE, err |-> <<>>]

\* ScanStep without `f_uppercase = False`
ScanStep_StickyUpper(st, ch) ==
    IF st.f_accept
    THEN [st EXCEPT !.so = @ \o <<ch>>, !.f_accept = FALSE]
    ELSE IF ~in_literal /\ ch \in DOMAIN flagchars
    THEN CASE flagchars[ch] = "accept" -> [st EXCEPT !.f_accept = TRUE]
           [] flagchars[ch] = "uppercase" -> [st EXCEPT !.f_uppercase = TRUE]
           [] flagchars[ch] = "underline" ->
                  [st EXCEPT !.so = @ \o UnderlineOpen,
                             !.eol = <<"}">> \o @]
           [] flagchars[ch] = "substitute" ->
                  [st EXCEPT !.f_substitute = TRUE, !.so = @ \o <<ch>>]
           [] OTHER ->
                  [st EXCEPT !.err = Append(@,
                       [f |-> ">> WARN: Unsupported flag %s (%s)",
                        a |-> <<flagchars[ch], ch>>])]
    ELSE IF st.f_uppercase
    THEN [st EXCEPT !.so = @ \o <<Upper(ch)>>]
    ELSE [st EXCEPT !.so = @ \o <<ch>>]

\* ScanStep whose underline branch schedules one close however many opens there are
ScanStep_SingleClose(st, ch) ==
    IF st.f_accept
    THEN [st EXCEPT !.so = @ \o <<ch>>, !.f_accept = FALSE]
    ELSE IF ~in_literal /\ ch \in DOMAIN flagchars
    THEN CASE flagchars[ch] = "accept" -> [st EXCEPT !.f_accept = TRUE]
           [] flagchars[ch] = "uppercase" -> [st EXCEPT !.f_uppercase = TRUE]
           [] flagchars[ch] = "underline" ->
                  [st EXCEPT !.so = @ \o UnderlineOpen,
                             !.eol = <<"}">>]
           [] flagchars[ch] = "substitute" ->
                  [st EXCEPT !.f_substitute = TRUE, !.so = @ \o <<ch>>]
           [] OTHER ->
                  [st EXCEPT !.err = Append(@,
                       [f |-> ">> WARN: Unsupported flag %s (%s)",
                        a |-> <<flagchars[ch], ch>>])]
    ELSE IF st.f_uppercase
    THEN [st EXCEPT !.so = @ \o <<Upper(ch)>>, !.f_uppercase = FALSE]
    ELSE [st EXCEPT !.so = @ \o <<ch>>]

\* ScanStep without `f_accept = False`
ScanStep_StickyAccept(st, ch) ==
    IF st.f_accept
    THEN [st EXCEPT !.so = @ \o <<ch>>]
    ELSE IF ~in_literal /\ ch \in DOMAIN flagchars
    THEN CASE flagchars[ch] = "accept" -> [st EXCEPT !.f_accept = TRUE]
           [] flagchars[ch] = "uppercase" -> [st EXCEPT !.f_uppercase = TRUE]
           [] flagchars[ch] = "underline" ->
                  [st EXCEPT !.so = @ \o UnderlineOpen,
                             !.eol = <<"}">> \o @]
           [] flagchars[ch] = "substitute" ->
                  [st EXCEPT !.f_substitute = TRUE, !.so = @ \o <<ch>>]
           [] OTHER ->
                  [st EXCEPT !.err = Append(@,
                       [f |-> ">> WARN: Unsupported flag %s (%s)",
                        a |-> <<flagchars[ch], ch>>])]
    ELSE IF st.f_uppercase
    THEN [st EXCEPT !.so = @ \o <<Upper(ch)>>, !.f_uppercase = FALSE]
    ELSE [st EXCEPT !.so = @ \o <<ch>>]

\* ScanStep whose unsupported-flag branch also copies the character
ScanStep_UnsupportedCopied(st, ch) ==
    IF st.f_accept
    THEN [st EXCEPT !.so = @ \o <<ch>>, !.f_accept = FALSE]
    ELSE IF ~in_literal /\ ch \in DOMAIN flagchars
    THEN CASE flagchars[ch] = "accept" -> [st EXCEPT !.f_accept = TRUE]
           [] flagchars[ch] = "uppercase" -> [st EXCEPT !.f_uppercase = TRUE]
           [] flagchars[ch] = "underline" ->
                  [st EXCEPT !.so = @ \o UnderlineOpen,
                             !.eol = <<"}">> \o @]
           [] flagchars[ch] = "substitute" ->
                  [st EXCEPT !.f_substitute = TRUE, !.so = @ \o <<ch>>]
           [] OTHER ->
                  [st EXCEPT !.so = @ \o <<ch>>,
                             !.err = Append(@,
                       [f |-> ">> WARN: Unsupported flag %s (%s)",
                        a |-> <<flagchars[ch], ch>>])]
    ELSE IF st.f_uppercase
    THEN [st EXCEPT !.so = @ \o <<Upper(ch)>>, !.f_uppercase = FALSE]
    ELSE [st EXCEPT !.so = @ \o <<ch>>]

\* one iteration of `for ch in s`; err collects the sys.stderr.write calls
ScanStep(st, ch) ==
    IF st.f_accept
    THEN [st EXCEPT !.so = @ \o <<ch>>, !.f_accept = FALSE]
    ELSE IF ~in_literal /\ ch \in DOMAIN flagchars
    THEN CASE flagchars[ch] = "accept" -> [st EXCEPT !.f_accept = TRUE]
           [] flagchars[ch] = "uppercase" -> [st EXCEPT !.f_uppercase = TRUE]
           [] flagchars[ch] = "underline" ->
                  [st EXCEPT !.so = @ \o UnderlineOpen,
                             !.eol = <<"}">> \o @]
           [] flagchars[ch] = "substitute" ->
                  [st EXCEPT !.f_substitute = TRUE, !.so = @ \o <<ch>>]
           [] OTHER ->
                  [st EXCEPT !.err = Append(@,
                       [f |-> ">> WARN: Unsupported flag %s (%s)",
                        a |-> <<flagchars[ch], ch>>])]
    ELSE IF st.f_uppercase
    THEN [st EXCEPT !.so = @ \o <<Upper(ch)>>, !.f_uppercase = FALSE]
    ELSE [st EXCEPT !.so = @ \o <<ch>>]

\* the locals after the first k characters of s
RECURSIVE ScanTo(_, _)
ScanTo(s, k) == IF k = 0 THEN ScanStart ELSE ScanStep(ScanTo(s, k - 1), s[k])

Scan(s) == ScanTo(s, Len(s))

\* "Process substitutions"
Substitute(so) ==
    LET sub == <<Inverse("substitute"), Inverse("substitute")>>
        s1 == ireplace(sub \o <<"d","a","t","e">>, strftime("%d %B %Y"), so)
        s2 == ireplace(sub \o <<"t","i","m","e">>, strftime("%H:%M:%S"), s1)
        s3 == ireplace(sub \o <<"y","e","a","r">>, strftime("%Y"), s2)
        s4 == ireplace(sub \o <<"m","o","n","t","h">>, strftime("%M"), s3)
        s5 == ireplace(sub \o <<"d","a","y">>, strftime("%d"), s4)
        s6 == ireplace(sub \o <<"h","o","u","r","s">>, strftime("%H"), s5)
        s7 == ireplace(sub \o <<"m","i","n","u","t","e","s">>, strftime("%M"), s6)
    IN ireplace(sub \o <<"s","e","c","o","n","d","s">>, strftime("%S"), s7)

\* TeXEscape with the math-mode replacements made before the '$' one
TeXEscape_MathFirst(so) ==
    LET e1 == Replace(so, "<", <<"$", "<", "$">>)
        e2 == Replace(e1, ">", <<"$", ">", "$">>)
        e3 == Replace(e2, "_", <<"\\", "_">>)
        e4 == Replace(e3, "$", <<"\\", "$">>)
    IN Replace(e4, "#", <<"\\", "#">>)

\* "Replace TeX special characters": five str.replace calls in this order
TeXEscape(so) ==
    LET e1 == Replace(so, "_", <<"\\", "_">>)
        e2 == Replace(e1, "$", <<"\\", "$">>)
        e3 == Replace(e2, "#", <<"\\", "#">>)
        e4 == Replace(e3, "<", <<"$", "<", "$">>)
    IN Replace(e4, ">", <<"$", ">", "$">>)

\* textline without the `if not in_literal` before the escaping
textline_EscapeInLiteral(s) ==
    LET st == Scan(s)
        sb == IF st.f_substitute THEN Substitute(st.so) ELSE st.so
    IN TeXEscape(sb) \o st.eol

\* the string textline returns
textline(s) ==
    LET st == Scan(s)
        sb == IF st.f_substitute THEN Substitute(st.so) ELSE st.so
        es == IF ~in_literal THEN TeXEscape(sb) ELSE sb
    IN es \o st.eol

\* what textline writes to sys.stderr
textline_err(s) == Scan(s).err

(***************************************************************************)
(* The pyparsing grammar, on lexemes: each directive shape is the sequence *)
(* of its elements, and MatchAnd matches a shape against a line.  A        *)
(* position is a 1-based index into the line.                              *)
(***************************************************************************)
\* lexemes of Word(alphas)
AlphaWords == {"uppercase", "underline", "accept", "substitute", "bold", "U", "a", "T", "foo"}

\* lexemes of one character, which Regex(".") takes
OneChars == {"a", "A", "U", "T", "^", "_", "$", "#", "<", ">", ".", "+", "-", ",", ";"}

\* lexemes of pp.common.integer and pp.common.signed_integer
IntLexemes == {"0", "1", "2", "3", "5"}

SignedIntLexemes == IntLexemes \cup {"-3"}

\* lexemes of pp.dbl_quoted_string and pp.sgl_quoted_string
DblQuoted == {"\"-\"", "\"f.txt\""}

SglQuoted == {"'*'"}

\* int() of an integer lexeme
IntVal(x) == IF x = "-3" THEN -3 ELSE (CHOOSE i \in DOMAIN Digits : Digits[i] = x) - 1

\* the lexemes that begin with '.', for str.startswith('.')
DotLexemes ==
    {".", ".AX", ".B", ".C", ".FL", ".NFL", ".HL", ".LS", ".LE", ".ELS", ".LT", ".EL",
     ".LM", ".RM", ".PS", ".REQ", ".AJ", ".AP", ".EBB", ".EBO", ".EUN", ".FN", ".EFN",
     ".ZZ"}

RECURSIVE SkipWs(_, _)
SkipWs(l, i) == IF i <= Len(l) /\ l[i] \in Whitespace THEN SkipWs(l, i + 1) ELSE i

\* The grammar's elements.  t is the kind of element, s the lexemes it takes,
\* name its results name ("" for none; "kw" is p[0], the first token), int
\* whether a parse action converts the lexeme to an integer, alts the
\* alternatives of an Or.
Element(t, s, name, int, alts) == [t |-> t, s |-> s, name |-> name, int |-> int, alts |-> alts]

\* pp.Literal(s) that opens a directive: the token the handler is looked up by
Keyword(S) == Element("tok", S, "kw", FALSE, <<>>)

Literal(s) == Element("tok", {s}, "", FALSE, <<>>)

FLAGNAME(name) == Element("tok", AlphaWords, name, FALSE, <<>>)

Regex1(name) == Element("tok", OneChars, name, FALSE, <<>>)

integer(name) == Element("tok", IntLexemes, name, TRUE, <<>>)

signed_integer(name) == Element("tok", SignedIntLexemes, name, TRUE, <<>>)

quoted_string(S, name) == Element("tok", S, name, FALSE, <<>>)

\* (Literal(" ") | Literal(";"))[...]
SEPARATOR == Element("sep", {";"}, "", FALSE, <<>>)

\* Regex(".*").leave_whitespace()
rest_of_line(name) == Element("rest", {}, name, FALSE, <<>>)

\* e1 ^ e2 ^ e3
Or(alts) == Element("or", {}, "", FALSE, alts)

CMD_APPENDIX == <<Keyword({".AX"}), SEPARATOR, rest_of_line("text")>>

CMD_BLANK == <<Keyword({".B"}), SEPARATOR, integer("n")>>

CMD_CENTRE == <<Keyword({".C"}), SEPARATOR, rest_of_line("text")>>

CMD_HEADING == <<Keyword({".HL"}), integer("n"), SEPARATOR, rest_of_line("text")>>

CMD_FLAG == <<Keyword({".FL"}), SEPARATOR, FLAGNAME("flag"), Regex1("flagchar")>>

CMD_NOFLAG == <<Keyword({".NFL"}), SEPARATOR, FLAGNAME("flag")>>

CMD_LISTSTART ==
    <<Keyword({".LS"}), SEPARATOR,
      Or(<< <<signed_integer("n")>>,
            <<signed_integer("n"), Literal(","), quoted_string(DblQuoted \cup SglQuoted, "bullet")>>,
            <<quoted_string(DblQuoted \cup SglQuoted, "bullet")>> >>)>>

CMD_LISTELEM == <<Keyword({".LE"}), Literal(";"), rest_of_line("text")>>

CMD_LISTEND == <<Keyword({".ELS"})>>

CMD_LITERAL == <<Keyword({".LT", ".EL"})>>

CMD_MARGIN == <<Keyword({".LM", ".RM"}), SEPARATOR, integer("")>>

CMD_PAGESIZE ==
    <<Keyword({".PS"}), SEPARATOR, signed_integer("lines"), Literal(","), signed_integer("chars")>>

CMD_REQUEST == <<Keyword({".REQ"}), SEPARATOR, quoted_string(DblQuoted, "filename")>>

\* COMMAND: the alternatives in the order MatchFirst (|) tries them
COMMAND ==
    << CMD_APPENDIX, CMD_BLANK, CMD_CENTRE, CMD_FLAG, CMD_NOFLAG, CMD_HEADING,
       CMD_LISTSTART, CMD_LISTELEM, CMD_LISTEND, CMD_LITERAL, CMD_MARGIN,
       CMD_PAGESIZE, CMD_REQUEST,
       <<Keyword({".AJ"})>>, <<Keyword({".AP"})>>, <<Keyword({".EBB"})>>,
       <<Keyword({".EBO"})>>, <<Keyword({".EUN"})>>, <<Keyword({".FN"})>>,
       <<Keyword({".EFN"})>> >>

\* the parse results before anything matched: names holds the results names
\* that are set, the keys of p.as_dict()
NoParams ==
    [kw |-> "", text |-> <<>>, line |-> <<>>, flag |-> "", flagchar |-> "", n |-> 0,
     bullet |-> "", lines |-> 0, chars |-> 0, filename |-> "", names |-> {}]

NoMatch == [ok |-> FALSE, pos |-> 0, p |-> NoParams]

\* pp.remove_quotes, the parse action of REQ's filename
remove_quotes(v) == IF v = "\"f.txt\"" THEN "f.txt" ELSE v

\* the results with value v under an element's results name
Bind(p, e, v) ==
    IF e.name = "" THEN p
    ELSE [p EXCEPT ![e.name] = IF e.int THEN IntVal(v)
                               ELSE IF e.name = "filename" THEN remove_quotes(v)
                               ELSE v,
                   !.names = IF e.name = "kw" THEN @ ELSE @ \cup {e.name}]

\* the separators from position i on: Literal(" ") never matches, since spaces
\* are skipped before it is tried, and a failed repetition consumes nothing
RECURSIVE SkipSeparators(_, _)
SkipSeparators(l, i) ==
    LET j == SkipWs(l, i)
    IN IF j <= Len(l) /\ l[j] = ";" THEN SkipSeparators(l, j + 1) ELSE i

\* the index of the longest match of rs, the earliest on a tie; 0 when none matched
Longest(rs) ==
    LET hits == { k \in DOMAIN rs : rs[k].ok }
    IN IF hits = {} THEN 0
       ELSE CHOOSE k \in hits :
                \A h \in hits : rs[k].pos > rs[h].pos \/ (rs[k].pos = rs[h].pos /\ k <= h)

\* one element that is no Or, matched where the match r so far ended.  Every
\* element but rest_of_line skips leading whitespace before it matches.
MatchElement(r, e, l) ==
    LET j == SkipWs(l, r.pos)
    IN IF ~r.ok THEN r
       ELSE CASE e.t = "tok" ->
                     IF j <= Len(l) /\ l[j] \in e.s
                     THEN [ok |-> TRUE, pos |-> j + 1, p |-> Bind(r.p, e, l[j])]
                     ELSE NoMatch
              [] e.t = "sep" -> [r EXCEPT !.pos = SkipSeparators(l, r.pos)]
              [] e.t = "rest" ->
                     [ok |-> TRUE, pos |-> Len(l) + 1,
                      p |-> Bind(r.p, e, SubSeq(l, r.pos, Len(l)))]

\* the first k elements of an Or's alternative, in turn
RECURSIVE MatchAlt(_, _, _, _)
MatchAlt(shape, k, l, r) ==
    IF k = 0 THEN r ELSE MatchElement(MatchAlt(shape, k - 1, l, r), shape[k], l)

\* the longest of the matches rs of an Or's alternatives
PickLongest(r, rs) == IF ~r.ok \/ Longest(rs) = 0 THEN NoMatch ELSE rs[Longest(rs)]

\* MatchOr that takes the first alternative that matches, as | does
MatchOr_First(r, e, l) ==
    LET rs == [k \in DOMAIN e.alts |-> MatchAlt(e.alts[k], Len(e.alts[k]), l, r)]
        hits == { k \in DOMAIN rs : rs[k].ok }
    IN IF ~r.ok \/ hits = {} THEN NoMatch
       ELSE rs[CHOOSE k \in hits : \A h \in hits : k <= h]

\* pyparsing's Or: every alternative is tried and the longest match is taken
MatchOr(r, e, l) ==
    PickLongest(r, [k \in DOMAIN e.alts |-> MatchAlt(e.alts[k], Len(e.alts[k]), l, r)])

\* the elements of a directive shape from the k-th on, in turn, after the
\* match r of the elements before them; a failed element fails the shape
RECURSIVE MatchFrom(_, _, _, _)
MatchFrom(shape, k, l, r) ==
    IF k > Len(shape) \/ ~r.ok THEN r
    ELSE MatchFrom(shape, k + 1, l,
                   IF shape[k].t = "or" THEN MatchOr(r, shape[k], l)
                   ELSE MatchElement(r, shape[k], l))

\* pyparsing's And: all the elements of shape in turn, from the start of line l
MatchAnd(shape, l) == MatchFrom(shape, 1, l, [ok |-> TRUE, pos |-> 1, p |-> NoParams])

\* pyparsing's MatchFirst over COMMAND from its k-th alternative on: the first
\* alternative that matches
RECURSIVE MatchFirstFrom(_, _)
MatchFirstFrom(k, l) ==
    IF k > Len(COMMAND) THEN NoMatch
    ELSE IF MatchAnd(COMMAND[k], l).ok THEN MatchAnd(COMMAND[k], l)
    ELSE MatchFirstFrom(k + 1, l)

MatchFirst(l) == MatchFirstFrom(1, l)

\* parse_all: c is what COMMAND matched.  "raw" is the rest_of_line("line")
\* alternative, "cmd" a directive, "error" a ParseException (a directive
\* matched and text is left over before the end of the string)
ParseAll(c, l) ==
    IF ~c.ok THEN [kind |-> "raw", p |-> [NoParams EXCEPT !.line = l, !.names = {"line"}]]
    ELSE IF SkipWs(l, c.pos) <= Len(l) THEN [kind |-> "error", p |-> c.p]
    ELSE [kind |-> "cmd", p |-> c.p]

\* parser.parse_string(line, True)
parse_string(l) == ParseAll(MatchFirst(l), l)

\* line.startswith('.') and line.startswith('+-')
StartsWithDot(l) == Len(l) > 0 /\ l[1] \in DotLexemes

StartsWithBanner(l) == Len(l) > 1 /\ l[1] = "+" /\ l[2] = "-"

(***************************************************************************)
(* bidict item assignment and deletion.                                    *)
(***************************************************************************)
\* b[key] = val as a plain dict does it: no check of the values
BidictPut_PlainDict(b, key, val) ==
    [raised |-> FALSE,
     b |-> [c \in DOMAIN b \cup {key} |-> IF c = key THEN val ELSE b[c]]]

\* b[key] = val that raises on a bound key as it does on a bound value
BidictPut_KeyRaises(b, key, val) ==
    IF key \in DOMAIN b /\ b[key] = val
    THEN [raised |-> FALSE, b |-> b]
    ELSE IF key \in DOMAIN b \/ \E c \in DOMAIN b : b[c] = val
    THEN [raised |-> TRUE, b |-> b]
    ELSE [raised |-> FALSE,
          b |-> [c \in DOMAIN b \cup {key} |-> IF c = key THEN val ELSE b[c]]]

\* b[key] = val under bidict's default duplication policy: an existing key is
\* overwritten (its old value dropped); a value already held by another key
\* raises ValueDuplicationError (KeyAndValueDuplicationError when the key is
\* bound too) and leaves b as it was
BidictPut(b, key, val) ==
    IF key \in DOMAIN b /\ b[key] = val
    THEN [raised |-> FALSE, b |-> b]
    ELSE IF \E c \in DOMAIN b : b[c] = val
    THEN [raised |-> TRUE, b |-> b]
    ELSE [raised |-> FALSE,
          b |-> [c \in DOMAIN b \cup {key} |-> IF c = key THEN val ELSE b[c]]]

\* del b[key]
BidictDel(b, key) == [c \in DOMAIN b \ {key} |-> b[c]]

(***************************************************************************)
(* Output.  One record per print() or write() call: the format and the     *)
(* string put into it.                                                     *)
(***************************************************************************)
Out(f, a) == [f |-> f, a |-> a]

Preamble == Out("\n\\documentclass{article}\n\\begin{document}\n", <<>>)

Trailer == Out("\\end{document}", <<>>)

\* n copies of x
RECURSIVE Repeat(_, _)
Repeat(x, n) == IF n = 0 THEN <<>> ELSE <<x>> \o Repeat(x, n - 1)

(***************************************************************************)
(* Input: the lines stdin may hold.                                        *)
(***************************************************************************)
FlagDirectives ==
    { <<".FL", " ", f, " ", c>> : f \in {"uppercase", "underline"}, c \in {"^", "U"} }

NoFlagDirectives == { <<".NFL", " ", f>> : f \in {"uppercase", "U"} }

OtherDirectives ==
    { <<".LT">>, <<".EL">>, <<".AX", " ", "T">>, <<".B", " ", "2">>,
      <<".C", " ", "^", "a">>, <<".HL", " ", "2", " ", "T">>, <<".LS", " ", "3">>,
      <<".LS", " ", "\"-\"">>, <<".LS", " ", "3", ",", "\"-\"">>,
      <<".LE", ";", "a", "_">>, <<".ELS">>, <<".FN">>, <<".EFN">>, <<".LM", " ", "5">> }

BadDirectives == { <<".ZZ", " ", "foo">>, <<".ELS", " ", "a">>, <<".LS">> }

ProseLines == { <<>>, <<"+", "-">>, <<"^", "a", "U", "_", " ">> }

Stdin == FlagDirectives \cup NoFlagDirectives \cup OtherDirectives
             \cup BadDirectives \cup ProseLines

\* Input of the prose runs: directives that set the Flag Table up, then one
\* line of prose over the characters textline treats specially
TextAlphabet == {"a", "^", "_", "$", "#", "<", ">"}

TriggerChars == {"^", "_"}

TextFlagDirectives ==
    { <<".FL", " ", f, " ", c>> :
          f \in {"uppercase", "underline", "accept", "substitute", "bold"},
          c \in TriggerChars }

\* the names of the substitution macros
MacroNames ==
    { <<"d","a","t","e">>, <<"t","i","m","e">>, <<"y","e","a","r">>,
      <<"m","o","n","t","h">>, <<"d","a","y">>, <<"h","o","u","r","s">>,
      <<"m","i","n","u","t","e","s">>, <<"s","e","c","o","n","d","s">> }

\* a macro call: a trigger character twice, then the name
MacroTexts == { <<c, c>> \o name : c \in TriggerChars, name \in MacroNames }

Texts == UNION { [1..n -> TextAlphabet] : n \in 1..MaxLen } \cup MacroTexts

\* `line.rstrip()` and `parser.parse_string(line, True)` of the directive lines,
\* computed once
ParseTable == [raw \in Stdin \cup TextFlagDirectives |-> parse_string(RStrip(raw))]

\* `line.rstrip()` and `parser.parse_string(line, True)` of an input line
Parses(raw) ==
    IF raw \in DOMAIN ParseTable THEN ParseTable[raw] ELSE parse_string(RStrip(raw))

(***************************************************************************)
(* The driver loop: one action per way an input line is handled.           *)
(***************************************************************************)
Init ==
    /\ flagchars = [c \in {"^"} |-> "uppercase"]
    /\ in_literal = FALSE
    /\ in_appendices = FALSE
    /\ stdout = <<Preamble>>
    /\ stderr = <<>>
    /\ lnum = 0
    /\ line = <<>>
    /\ pc = "running"
    /\ call = NoCall

\* `for line in sys.stdin: line = line.rstrip(); lnum += 1`
Read(raw) ==
    /\ pc = "running"
    /\ lnum < MaxLines
    /\ line' = RStrip(raw)
    /\ lnum' = lnum + 1
    /\ UNCHANGED call

\* the line reaches the parser
Parsed(raw) ==
    /\ Read(raw)
    /\ Len(RStrip(raw)) # 0
    /\ ~(lnum + 1 = 1 /\ StartsWithBanner(RStrip(raw)))

\* the line is a directive with keyword kw
Directive(raw, kw) ==
    /\ Parsed(raw)
    /\ Parses(raw).kind = "cmd"
    /\ Parses(raw).p.kw = kw

Params(raw) == Parses(raw).p

\* "skip blank lines"
BlankLine(raw) ==
    /\ Read(raw)
    /\ Len(RStrip(raw)) = 0
    /\ stdout' = Append(stdout, Out("", <<>>))
    /\ UNCHANGED <<flagchars, in_literal, in_appendices, stderr, pc>>

\* "skip the file header comment"
HeaderLine(raw) ==
    /\ Read(raw)
    /\ Len(RStrip(raw)) # 0
    /\ lnum + 1 = 1 /\ StartsWithBanner(RStrip(raw))
    /\ UNCHANGED <<flagchars, in_literal, in_appendices, stdout, stderr, pc>>

\* parse_string raises ParseException, which nothing catches
ParseError(raw) ==
    /\ Parsed(raw)
    /\ Parses(raw).kind = "error"
    /\ stderr' = Append(stderr, Out("Traceback: ParseException", RStrip(raw)))
    /\ pc' = "raised"
    /\ UNCHANGED <<flagchars, in_literal, in_appendices, stdout>>

\* UnparsedCommand without sys.exit(1)
UnparsedCommand_NoExit(raw) ==
    /\ Parsed(raw)
    /\ Parses(raw).kind = "raw"
    /\ StartsWithDot(RStrip(raw))
    /\ stdout' = Append(stdout, Out("*** Unparsed command: %s", RStrip(raw)))
    /\ UNCHANGED <<flagchars, in_literal, in_appendices, stderr, pc>>

\* "trap unparsed commands"
UnparsedCommand(raw) ==
    /\ Parsed(raw)
    /\ Parses(raw).kind = "raw"
    /\ StartsWithDot(RStrip(raw))
    /\ stdout' = Append(stdout, Out("*** Unparsed command: %s", RStrip(raw)))
    /\ pc' = "exited"
    /\ UNCHANGED <<flagchars, in_literal, in_appendices, stderr>>

\* PlainText that leaves literal mode once the line is printed
PlainText_EndsLiteral(raw) ==
    /\ Parsed(raw)
    /\ ~StartsWithDot(RStrip(raw))
    /\ \E r \in {Parses(raw)} :
           /\ r.kind = "raw"
           /\ stdout' = Append(stdout, Out("%s", textline(r.p.line)))
           /\ stderr' = stderr \o textline_err(r.p.line)
    /\ in_literal' = FALSE
    /\ UNCHANGED <<flagchars, in_appendices, pc>>

\* PlainText that in literal mode prints every line but `.EL` verbatim
PlainText_VerbatimInLiteral(raw) ==
    /\ Parsed(raw)
    /\ \E r \in {Parses(raw)} :
           /\ \/ r.kind = "raw" /\ ~StartsWithDot(RStrip(raw))
              \/ in_literal /\ ~(r.kind = "cmd" /\ r.p.kw = ".EL")
           /\ stdout' = Append(stdout, Out("%s", textline(RStrip(raw))))
           /\ stderr' = stderr \o textline_err(RStrip(raw))
    /\ UNCHANGED <<flagchars, in_literal, in_appendices, pc>>

\* "no command, print line verbatim"
PlainText(raw) ==
    /\ Parsed(raw)
    /\ ~StartsWithDot(RStrip(raw))
    /\ \E r \in {Parses(raw)} :
           /\ r.kind = "raw"
           /\ stdout' = Append(stdout, Out("%s", textline(r.p.line)))
           /\ stderr' = stderr \o textline_err(r.p.line)
    /\ UNCHANGED <<flagchars, in_literal, in_appendices, pc>>

cmdh_blank(raw) ==
    /\ Directive(raw, ".B")
    /\ stdout' = stdout \o Repeat(Out("\\vspace{\\baselineskip}", <<>>), Params(raw).n)
    /\ UNCHANGED <<flagchars, in_literal, in_appendices, stderr, pc>>

cmdh_centre(raw) ==
    /\ Directive(raw, ".C")
    /\ stdout' = Append(stdout, Out("\\centerline{%s}", textline(Params(raw).text)))
    /\ stderr' = stderr \o textline_err(Params(raw).text)
    /\ UNCHANGED <<flagchars, in_literal, in_appendices, pc>>

cmdh_flag(raw) ==
    /\ Directive(raw, ".FL")
    /\ LET r == BidictPut(flagchars, Params(raw).flagchar, Params(raw).flag)
       IN /\ flagchars' = r.b
          /\ IF r.raised
             THEN /\ pc' = "raised"
                  /\ stderr' = Append(stderr,
                         Out("Traceback: ValueDuplicationError", <<Params(raw).flag>>))
             ELSE UNCHANGED <<pc, stderr>>
    /\ UNCHANGED <<in_literal, in_appendices, stdout>>

cmdh_noflag(raw) ==
    /\ Directive(raw, ".NFL")
    /\ flagchars' = IF Params(raw).flag \in DOMAIN flagchars
                    THEN BidictDel(flagchars, Params(raw).flag)
                    ELSE flagchars
    /\ UNCHANGED <<in_literal, in_appendices, stdout, stderr, pc>>

cmdh_footnote_start(raw) ==
    /\ Directive(raw, ".FN")
    /\ stdout' = Append(stdout, Out("\\let\\thefootnote\\relax\\footnote {", <<>>))
    /\ UNCHANGED <<flagchars, in_literal, in_appendices, stderr, pc>>

cmdh_footnote_end(raw) ==
    /\ Directive(raw, ".EFN")
    /\ stdout' = Append(stdout, Out("}", <<>>))
    /\ UNCHANGED <<flagchars, in_literal, in_appendices, stderr, pc>>

\* cmdh_appendix without `in_appendices = True`
cmdh_appendix_NoLatch(raw) ==
    /\ Directive(raw, ".AX")
    /\ stdout' = stdout
                   \o (IF ~in_appendices THEN <<Out("\\appendix", <<>>)>> ELSE <<>>)
                   \o <<Out("\\section{%s}", Strip(Params(raw).text))>>
    /\ UNCHANGED <<flagchars, in_literal, in_appendices, stderr, pc>>

cmdh_appendix(raw) ==
    /\ Directive(raw, ".AX")
    /\ stdout' = stdout
                   \o (IF ~in_appendices THEN <<Out("\\appendix", <<>>)>> ELSE <<>>)
                   \o <<Out("\\section{%s}", Strip(Params(raw).text))>>
    /\ in_appendices' = TRUE
    /\ UNCHANGED <<flagchars, in_literal, stderr, pc>>

cmdh_heading(raw) ==
    /\ Directive(raw, ".HL")
    /\ stdout' = Append(stdout,
                     Out("\\%ssection{%s}",
                         Repeat("sub", Params(raw).n - 1) \o <<"|">>
                             \o Strip(Params(raw).text)))
    /\ UNCHANGED <<flagchars, in_literal, in_appendices, stderr, pc>>

cmdh_list_start(raw) ==
    /\ Directive(raw, ".LS")
    /\ stdout' = Append(stdout, Out("\\begin{itemize}", <<>>))
    /\ UNCHANGED <<flagchars, in_literal, in_appendices, stderr, pc>>

cmdh_list_elem(raw) ==
    /\ Directive(raw, ".LE")
    /\ stdout' = Append(stdout, Out("\\item %s", textline(Params(raw).text)))
    /\ stderr' = stderr \o textline_err(Params(raw).text)
    /\ UNCHANGED <<flagchars, in_literal, in_appendices, pc>>

cmdh_list_end(raw) ==
    /\ Directive(raw, ".ELS")
    /\ stdout' = Append(stdout, Out("\\end{itemize}", <<>>))
    /\ UNCHANGED <<flagchars, in_literal, in_appendices, stderr, pc>>

cmdh_literal_start(raw) ==
    /\ Directive(raw, ".LT")
    /\ in_literal' = TRUE
    /\ stdout' = Append(stdout, Out("\\begin{verbatim}", <<>>))
    /\ UNCHANGED <<flagchars, in_appendices, stderr, pc>>

cmdh_literal_end(raw) ==
    /\ Directive(raw, ".EL")
    /\ in_literal' = FALSE
    /\ stdout' = Append(stdout, Out("\\end{verbatim}", <<>>))
    /\ UNCHANGED <<flagchars, in_appendices, stderr, pc>>

\* the keywords of CMD_HANDLERS
Handled ==
    {".AX", ".B", ".C", ".FL", ".NFL", ".FN", ".EFN", ".HL", ".LS", ".LE", ".ELS",
     ".LT", ".EL"}

\* p.as_dict(): the named results
as_dict(p) == [name \in p.names |-> p[name]]

\* UnhandledCmd with a sys.exit(1) after the diagnostic
UnhandledCmd_Exit(raw) ==
    /\ Parsed(raw)
    /\ Parses(raw).kind = "cmd"
    /\ Params(raw).kw \notin Handled
    /\ stderr' = Append(stderr, Out("*** Unhandled Cmd [%s] PARMS -> %s",
                                    <<Params(raw).kw, as_dict(Params(raw))>>))
    /\ pc' = "exited"
    /\ UNCHANGED <<flagchars, in_literal, in_appendices, stdout>>

\* CMD_HANDLERS.get(p[0]) is None
UnhandledCmd(raw) ==
    /\ Parsed(raw)
    /\ Parses(raw).kind = "cmd"
    /\ Params(raw).kw \notin Handled
    /\ stderr' = Append(stderr, Out("*** Unhandled Cmd [%s] PARMS -> %s",
                                    <<Params(raw).kw, as_dict(Params(raw))>>))
    /\ UNCHANGED <<flagchars, in_literal, in_appendices, stdout, pc>>

\* stdin is exhausted: print('\\end{document}') and the process ends
Eof ==
    /\ pc = "running"
    /\ stdout' = Append(stdout, Trailer)
    /\ pc' = "done"
    /\ UNCHANGED <<flagchars, in_literal, in_appendices, stderr, lnum, line, call>>

Next ==
    \/ \E raw \in Stdin : BlankLine(raw)
    \/ \E raw \in Stdin : HeaderLine(raw)
    \/ \E raw \in Stdin : ParseError(raw)
    \/ \E raw \in Stdin : UnparsedCommand(raw)
    \/ \E raw \in Stdin : PlainText(raw)
    \/ \E raw \in Stdin : cmdh_appendix(raw)
    \/ \E raw \in Stdin : cmdh_blank(raw)
    \/ \E raw \in Stdin : cmdh_centre(raw)
    \/ \E raw \in Stdin : cmdh_flag(raw)
    \/ \E raw \in Stdin : cmdh_noflag(raw)
    \/ \E raw \in Stdin : cmdh_footnote_start(raw)
    \/ \E raw \in Stdin : cmdh_footnote_end(raw)
    \/ \E raw \in Stdin : cmdh_heading(raw)
    \/ \E raw \in Stdin : cmdh_list_start(raw)
    \/ \E raw \in Stdin : cmdh_list_elem(raw)
    \/ \E raw \in Stdin : cmdh_list_end(raw)
    \/ \E raw \in Stdin : cmdh_literal_start(raw)
    \/ \E raw \in Stdin : cmdh_literal_end(raw)
    \/ \E raw \in Stdin : UnhandledCmd(raw)
    \/ Eof

Spec == Init /\ [][Next]_vars

(***************************************************************************)
(* The prose runs: the driver on at most one directive per trigger         *)
(* character, then on one line of prose, which ends the run.               *)
(***************************************************************************)
\* a line of prose has been printed
ProsePrinted == \E i \in DOMAIN stdout : stdout[i].f = "%s"

SetUp == ~ProsePrinted /\ lnum < Cardinality(TriggerChars)

TextFlag == SetUp /\ \E raw \in TextFlagDirectives : cmdh_flag(raw)

TextLiteral == SetUp /\ cmdh_literal_start(<<".LT">>)

TextProse == ~ProsePrinted /\ \E raw \in Texts : PlainText(raw)

NextText == TextFlag \/ TextLiteral \/ TextProse

SpecText == Init /\ [][NextText]_vars

(***************************************************************************)
(* Runs of several lines of prose: the set-up of the prose runs, then      *)
(* short lines that begin or end with a trigger character.                 *)
(***************************************************************************)
PendingTexts ==
    { <<"a">>, <<"^">>, <<"_">>, <<"a", "^">>, <<"a", "_">>, <<"^", "a">>,
      <<"_", "a">>, <<"_", "^">> }

PendingProse == \E raw \in PendingTexts : PlainText(raw)

NextLines == TextFlag \/ TextLiteral \/ PendingProse

SpecLines == Init /\ [][NextLines]_vars

(***************************************************************************)
(* A call of ireplace, one iteration of its loop at a time.                *)
(***************************************************************************)
IreplaceAlphabet == {"a", "A", "b"}

\* the patterns (all non-empty) and the replacements, some of which hold a
\* pattern in another case
Patterns == { <<"a">>, <<"a", "b">>, <<"A", "a">> }

Replacements == { <<>>, <<"b">>, <<"A">>, <<"a", "a">>, <<"b", "A", "B">> }

IreplaceTexts == UNION { [1..n -> IreplaceAlphabet] : n \in 0..MaxLen }

InitIreplace ==
    /\ flagchars = [c \in {"^"} |-> "uppercase"]
    /\ in_literal = FALSE
    /\ in_appendices = FALSE
    /\ stdout = <<Preamble>>
    /\ stderr = <<>>
    /\ lnum = 0
    /\ line = <<>>
    /\ pc = "running"
    /\ call \in { Enter(old, new, text) :
                     old \in Patterns, new \in Replacements, text \in IreplaceTexts }

\* `while idx < len(text)` holds: the body runs
ireplace_while ==
    /\ call.pc = "while"
    /\ call.idx < Len(call.text)
    /\ call' = ireplace_body(call)
    /\ UNCHANGED <<flagchars, in_literal, in_appendices, stdout, stderr, lnum, line, pc>>

\* the loop is left: `return text`
ireplace_return ==
    /\ call.pc = "while"
    /\ ~(call.idx < Len(call.text))
    /\ call' = [call EXCEPT !.pc = "returned"]
    /\ UNCHANGED <<flagchars, in_literal, in_appendices, stdout, stderr, lnum, line, pc>>

NextIreplace == ireplace_while \/ ireplace_return

SpecIreplace == InitIreplace /\ [][NextIreplace]_vars /\ WF_vars(NextIreplace)

(***************************************************************************)
(* Properties.                                                             *)
(***************************************************************************)
Last(s) == s[Len(s)]

\* the step reads a line of input
ReadStep == lnum' = lnum + 1

\* the line l is an FL directive for flag name f and character d
IsFlagLine(l, f, d) ==
    /\ parse_string(l).kind = "cmd"
    /\ parse_string(l).p.kw = ".FL"
    /\ parse_string(l).p.flag = f
    /\ parse_string(l).p.flagchar = d

\* the flag names and characters of the FL and NFL directives of Stdin
StdinFlags == { l[3] : l \in FlagDirectives \cup NoFlagDirectives }

StdinChars == { l[5] : l \in FlagDirectives }

\* C1: whenever `.FL f d` is processed while f is bound to a character c # d,
\* the run goes on, f is bound to d afterwards and c is no trigger any more.
C1_RebindMovesFlag ==
    [][\A f \in StdinFlags, d \in StdinChars :
          (ReadStep /\ IsFlagLine(line', f, d)
             /\ \E c \in DOMAIN flagchars : flagchars[c] = f /\ c # d)
          => /\ pc' = "running"
             /\ d \in DOMAIN flagchars' /\ flagchars'[d] = f
             /\ \A c \in DOMAIN flagchars : flagchars[c] = f => c \notin DOMAIN flagchars'
      ]_vars

\* the line l is an NFL directive for flag name f
IsNoFlagLine(l, f) ==
    /\ parse_string(l).kind = "cmd"
    /\ parse_string(l).p.kw = ".NFL"
    /\ parse_string(l).p.flag = f

\* C2: after `.NFL f` no character is bound to f, and when f had no binding
\* the Flag Table is unchanged.
C2_UnbindRemovesFlag ==
    [][\A f \in StdinFlags :
          (ReadStep /\ IsNoFlagLine(line', f))
          => /\ pc' = "running"
             /\ \A c \in DOMAIN flagchars' : flagchars'[c] # f
             /\ (\A c \in DOMAIN flagchars : flagchars[c] # f) => flagchars' = flagchars
      ]_vars

\* C3: in every reachable state the Flag Table is a bijection: no flag name is
\* bound to two characters (and, flagchars being a map, no character to two names).
C3_Bijection ==
    \A c1, c2 \in DOMAIN flagchars : flagchars[c1] = flagchars[c2] => c1 = c2

\* an FL directive was refused by the bidict for a value already bound, and
\* the table holds two bindings
C3_Witness ==
    /\ Cardinality(DOMAIN flagchars) = 2
    /\ pc = "raised"
    /\ \E f \in StdinFlags, d \in StdinChars : IsFlagLine(line, f, d)

\* C4: whenever `.FL g c` is processed while c is bound to a name f and g is
\* bound to no character, c is bound to g afterwards, no other character is
\* bound to g, and f is bound to no character.
C4_RebindCharacter ==
    [][\A g \in StdinFlags, c \in StdinChars :
          (ReadStep /\ IsFlagLine(line', g, c)
             /\ c \in DOMAIN flagchars
             /\ \A x \in DOMAIN flagchars : flagchars[x] # g)
          => /\ pc' = "running"
             /\ c \in DOMAIN flagchars' /\ flagchars'[c] = g
             /\ \A x \in DOMAIN flagchars' : flagchars'[x] = g => x = c
             /\ \A x \in DOMAIN flagchars' : flagchars'[x] # flagchars[c]
      ]_vars

\* `.FL underline ^` was the first line: ^ was bound to uppercase, underline unbound
C4_Witness ==
    /\ lnum = 1
    /\ IsFlagLine(line, "underline", "^")
    /\ pc = "running"
    /\ flagchars = [c \in {"^"} |-> "underline"]

\* C5: in literal mode a line of prose is printed as it was read: no trigger is
\* interpreted, no pending flag is set, nothing is substituted or escaped, and
\* no underline close is appended.
C5_LiteralIdentity ==
    (ProsePrinted /\ in_literal)
    => /\ Last(stdout) = Out("%s", line)
       /\ Scan(line) = [ScanStart EXCEPT !.so = line]
       /\ textline_err(line) = <<>>

\* a line with a bound trigger and a TeX special character went through literal mode
C5_Witness ==
    /\ ProsePrinted /\ in_literal
    /\ \E i, j \in DOMAIN line : line[i] \in DOMAIN flagchars /\ line[j] = "_"
    /\ Last(stdout).a = line

\* the line l begins with '.' and is no directive
Unrecognized(l) == StartsWithDot(l) /\ parse_string(l).kind # "cmd"

\* the TeX text on stdout: what print() wrote that is no diagnostic
Diagnostics ==
    {"*** Unparsed command: %s", "*** Unhandled Cmd [%s] PARMS -> %s",
     ">> WARN: Unsupported flag %s (%s)"}

DocumentText(out) == SelectSeq(out, LAMBDA o : o.f \notin Diagnostics)

\* C6: a line that begins with '.' and is no directive ends the run: the step
\* that reads it changes no state and prints no TeX text, and nothing happens
\* after it (no line is read, no handler runs, no trailer is printed).
C6_UnrecognizedAborts ==
    [][/\ (ReadStep /\ Unrecognized(line'))
          => /\ pc' \in {"exited", "raised"}
             /\ UNCHANGED <<flagchars, in_literal, in_appendices>>
             /\ DocumentText(stdout') = DocumentText(stdout)
       /\ pc \in {"exited", "raised"} => UNCHANGED vars
      ]_vars

\* `.ZZ foo` ended the run as its second line, with a third line left to read
C6_Witness ==
    /\ pc = "exited"
    /\ line = <<".ZZ", " ", "foo">>
    /\ lnum = 2 /\ lnum < MaxLines
    /\ Trailer \notin { stdout[i] : i \in DOMAIN stdout }

\* the line l is a directive the grammar accepts and CMD_HANDLERS does not hold
IsUnhandled(l) == parse_string(l).kind = "cmd" /\ parse_string(l).p.kw \notin Handled

\* a line of each keyword that has no handler
UnhandledLines ==
    { <<".LM", " ", "5">>, <<".RM", " ", "5">>, <<".PS", " ", "3", ",", "5">>,
      <<".REQ", " ", "\"f.txt\"">>, <<".AJ">>, <<".AP">>, <<".EBB">>, <<".EBO">>,
      <<".EUN">> }

\* C7 as stated: once a directive without a handler has been read the run is
\* over (no later line is processed).
C7_UnhandledAborts ==
    (lnum > 0 /\ IsUnhandled(line)) => pc \in {"exited", "raised"}

\* C7 as amended: a directive without a handler (LM, RM, PS, REQ, AJ, AP, EBB,
\* EBO, EUN) writes a diagnostic naming the keyword and its parameters to
\* stderr, changes no state, prints nothing, and the run goes on.
C7_UnhandledContinues ==
    /\ \A l \in UnhandledLines : IsUnhandled(l)
    /\ [][(ReadStep /\ IsUnhandled(line'))
             => /\ pc' = "running"
                /\ UNCHANGED <<flagchars, in_literal, in_appendices, stdout>>
                /\ stderr' = Append(stderr,
                       Out("*** Unhandled Cmd [%s] PARMS -> %s",
                           <<parse_string(line').p.kw, as_dict(parse_string(line').p)>>))
         ]_vars

\* a line was processed by its handler after `.LM 5` had been diagnosed
C7_Witness ==
    /\ lnum = 2
    /\ stderr = <<Out("*** Unhandled Cmd [%s] PARMS -> %s", <<".LM", <<>> >>)>>
    /\ line = <<".LT">>
    /\ in_literal

\* C8: no diagnostic is ever written to the document output channel.
C8_DiagnosticsOnStderr ==
    \A i \in DOMAIN stdout : stdout[i].f \notin Diagnostics

\* the image of one character under the fixed escape table
EscapeChar(ch) ==
    CASE ch = "_" -> <<"\\", "_">>
      [] ch = "$" -> <<"\\", "$">>
      [] ch = "#" -> <<"\\", "#">>
      [] ch = "<" -> <<"$", "<", "$">>
      [] ch = ">" -> <<"$", ">", "$">>
      [] OTHER -> <<ch>>

RECURSIVE EscapeImage(_)
EscapeImage(s) == IF s = <<>> THEN <<>> ELSE EscapeChar(Head(s)) \o EscapeImage(Tail(s))

\* C9: outside literal mode a line of prose without any bound trigger is
\* printed as its character-by-character image under the fixed table.
C9_EscapeIsCharacterwise ==
    (ProsePrinted /\ ~in_literal /\ \A i \in DOMAIN line : line[i] \notin DOMAIN flagchars)
    => Last(stdout) = Out("%s", EscapeImage(line))

\* a line with '$' before '<' and no trigger was printed outside literal mode
C9_Witness ==
    /\ ProsePrinted /\ ~in_literal
    /\ line = <<"$", "<", "_">>
    /\ Last(stdout).a = <<"\\", "$", "$", "<", "$", "\\", "_">>

\* position k of s is copied for the accept trigger before it
RECURSIVE Accepted(_, _)
Accepted(s, k) ==
    /\ k > 1
    /\ ~Accepted(s, k - 1)
    /\ s[k - 1] \in DOMAIN flagchars
    /\ flagchars[s[k - 1]] = "accept"

\* position k of s is interpreted as the trigger of flag name
Interpreted(s, k, name) ==
    ~Accepted(s, k) /\ s[k] \in DOMAIN flagchars /\ flagchars[s[k]] = name

\* position k of s is handled as an ordinary character
Ordinary(s, k) == ~Accepted(s, k) /\ s[k] \notin DOMAIN flagchars

\* what the scan appends to so for position k of s
Emitted(s, k) ==
    SubSeq(ScanTo(s, k).so, Len(ScanTo(s, k - 1).so) + 1, Len(ScanTo(s, k).so))

\* an interpreted uppercase trigger precedes position k with no ordinary
\* character between them
UppercaseDue(s, k) ==
    \E j \in 1..(k - 1) :
        /\ Interpreted(s, j, "uppercase")
        /\ \A i \in (j + 1)..(k - 1) : ~Ordinary(s, i)

\* C10: outside literal mode an interpreted uppercase trigger emits nothing,
\* and an ordinary character is emitted in upper case exactly when an
\* uppercase trigger precedes it with no ordinary character in between, in its
\* original case otherwise; `^aa` with ^ bound to uppercase gives `Aa`.
C10_UppercaseOneShot ==
    (ProsePrinted /\ ~in_literal)
    => /\ \A k \in DOMAIN line :
             /\ Interpreted(line, k, "uppercase") => Emitted(line, k) = <<>>
             /\ Ordinary(line, k)
                  => Emitted(line, k) =
                         IF UppercaseDue(line, k) THEN <<Upper(line[k])>> ELSE <<line[k]>>
       /\ (line = <<"^", "a", "a">> /\ flagchars["^"] = "uppercase")
             => Last(stdout).a = <<"A", "a">>

\* `^aa` was printed as `Aa`
C10_Witness ==
    /\ ProsePrinted /\ ~in_literal
    /\ flagchars["^"] = "uppercase"
    /\ line = <<"^", "a", "a">>
    /\ Last(stdout).a = <<"A", "a">>

\* the number of underline triggers the scan of s interprets
UnderlineCount(s) == Cardinality({ i \in DOMAIN s : Interpreted(s, i, "underline") })

C12_AcceptCopiesNext ==
    (ProsePrinted /\ ~in_literal)
    => \A k \in DOMAIN line :
          /\ Interpreted(line, k, "accept")
               => ScanTo(line, k) = [ScanTo(line, k - 1) EXCEPT !.f_accept = TRUE]
          /\ Accepted(line, k)
               => ScanTo(line, k) =
                      [ScanTo(line, k - 1) EXCEPT !.so = @ \o <<line[k]>>, !.f_accept = FALSE]
          /\ ScanTo(line, k).f_accept <=> Interpreted(line, k, "accept")

\* with ^ bound to uppercase and _ to accept, `^_^` was printed as `^`: the
\* second ^ was copied while pending-uppercase was set
C12_Witness ==
    /\ ProsePrinted /\ ~in_literal
    /\ flagchars = [c \in {"^", "_"} |-> IF c = "^" THEN "uppercase" ELSE "accept"]
    /\ line = <<"^", "_", "^">>
    /\ ScanTo(line, 2).f_uppercase /\ ScanTo(line, 3).f_uppercase
    /\ Last(stdout).a = <<"^">>

\* the line l is an AX directive
IsAppendixLine(l) == parse_string(l).kind = "cmd" /\ parse_string(l).p.kw = ".AX"

\* the number of records of out printed with format f
CountOut(out, f) == Cardinality({ i \in DOMAIN out : out[i].f = f })

\* C13: in_appendices never goes back to false; every AX directive prints a
\* \section, the first one with \appendix right before it and the later ones
\* without; so \appendix has been printed once when an AX directive has been
\* processed and never otherwise.
C13_AppendixOnce ==
    /\ [](/\ CountOut(stdout, "\\appendix") = (IF in_appendices THEN 1 ELSE 0)
          /\ in_appendices <=> CountOut(stdout, "\\section{%s}") > 0)
    /\ [][/\ in_appendices => in_appendices'
          /\ (ReadStep /\ IsAppendixLine(line'))
                => /\ in_appendices'
                   /\ stdout' = stdout
                         \o (IF in_appendices THEN <<>> ELSE <<Out("\\appendix", <<>>)>>)
                         \o <<Out("\\section{%s}", Strip(parse_string(line').p.text))>>
          /\ (ReadStep /\ ~IsAppendixLine(line'))
                => /\ in_appendices' = in_appendices
                   /\ CountOut(stdout', "\\appendix") = CountOut(stdout, "\\appendix")
         ]_vars

\* two AX directives were processed: one \appendix, right before the first of
\* two \section commands
C13_Witness ==
    /\ lnum = 2
    /\ in_appendices
    /\ stdout = <<Preamble, Out("\\appendix", <<>>), Out("\\section{%s}", <<"T">>),
                  Out("\\section{%s}", <<"T">>)>>

\* the flag names textline implements
Supported == {"accept", "uppercase", "underline", "substitute"}

\* position k of s is interpreted as the trigger of a flag textline does not implement
Unsupported(s, k) ==
    ~Accepted(s, k) /\ s[k] \in DOMAIN flagchars /\ flagchars[s[k]] \notin Supported

\* C14: outside literal mode a trigger of an unimplemented flag adds one
\* diagnostic naming the flag and the character, emits nothing and changes no
\* pending flag; the rest of the line is scanned, the line is printed and the
\* run goes on, with one diagnostic on stderr per such trigger.
C14_UnsupportedFlagSkipped ==
    (ProsePrinted /\ ~in_literal)
    => /\ \A k \in DOMAIN line :
             Unsupported(line, k)
             => ScanTo(line, k) =
                    [ScanTo(line, k - 1) EXCEPT
                        !.err = Append(@, Out(">> WARN: Unsupported flag %s (%s)",
                                              <<flagchars[line[k]], line[k]>>))]
       /\ Len(stderr) = Cardinality({ k \in DOMAIN line : Unsupported(line, k) })
       /\ pc = "running"
       /\ (line = <<"^", "_", "a">> /\ flagchars["^"] = "uppercase"
              /\ "_" \in DOMAIN flagchars /\ flagchars["_"] = "bold")
             => Last(stdout).a = <<"A">>

\* with ^ bound to uppercase and _ to bold, `^_a` was printed as `A` with one
\* diagnostic: the trigger was dropped and pending-uppercase survived it
C14_Witness ==
    /\ ProsePrinted /\ ~in_literal /\ pc = "running"
    /\ flagchars = [c \in {"^", "_"} |-> IF c = "^" THEN "uppercase" ELSE "bold"]
    /\ line = <<"^", "_", "a">>
    /\ Last(stdout).a = <<"A">>
    /\ stderr = <<Out(">> WARN: Unsupported flag %s (%s)", <<"bold", "_">>)>>

\* the wall-clock field the specification gives a macro name
MacroField(name) ==
    CASE name = <<"d","a","t","e">> -> strftime("%d %B %Y")
      [] name = <<"t","i","m","e">> -> strftime("%H:%M:%S")
      [] name = <<"y","e","a","r">> -> strftime("%Y")
      [] name = <<"m","o","n","t","h">> -> strftime("%m")
      [] name = <<"d","a","y">> -> strftime("%d")
      [] name = <<"h","o","u","r","s">> -> strftime("%H")
      [] name = <<"m","i","n","u","t","e","s">> -> strftime("%M")
      [] name = <<"s","e","c","o","n","d","s">> -> strftime("%S")

\* the printed line is the call of macro name with the substitute trigger
IsMacroCall(name) ==
    /\ ProsePrinted /\ ~in_literal
    /\ \E c \in DOMAIN flagchars : flagchars[c] = "substitute" /\ line = <<c, c>> \o name

\* C15: with the substitute flag active, each macro name is replaced by its
\* own wall-clock field; month and minutes are replaced by different fields.
C15_MacroFields ==
    \A name \in MacroNames : IsMacroCall(name) => Last(stdout).a = MacroField(name)

\* the three parameter shapes of LS: an integer, a bullet, an integer and a bullet
LSLines ==
    { <<".LS", " ", "3">>, <<".LS", " ", "\"-\"">>, <<".LS", " ", "3", ",", "\"-\"">> }

\* LS lines of no shape: no parameter, a comma without a bullet, a bullet
\* after a comma without an integer, a word
LSRejected ==
    { <<".LS">>, <<".LS", " ", "3", ",">>, <<".LS", " ", ",", "\"-\"">>,
      <<".LS", " ", "foo">> }

\* C16: `.LS 3`, `.LS "-"` and `.LS 3,"-"` parse as LS with the results n,
\* bullet, and n and bullet; other LS lines are no directive; an LS line of one
\* of the three shapes is handled by cmdh_list_start and `.LS` alone ends the
\* run as an unparsed command.
C16_ListStartShapes ==
    /\ \A l \in LSLines : parse_string(l).kind = "cmd" /\ parse_string(l).p.kw = ".LS"
    /\ parse_string(<<".LS", " ", "3">>).p.names = {"n"}
    /\ parse_string(<<".LS", " ", "\"-\"">>).p.names = {"bullet"}
    /\ parse_string(<<".LS", " ", "3", ",", "\"-\"">>).p.names = {"n", "bullet"}
    /\ \A l \in LSRejected : parse_string(l).kind # "cmd"
    /\ parse_string(<<".LS">>).kind = "raw"
    /\ [][/\ (ReadStep /\ line' \in LSLines)
                => /\ stdout' = Append(stdout, Out("\\begin{itemize}", <<>>))
                   /\ pc' = "running"
                   /\ UNCHANGED <<flagchars, in_literal, in_appendices, stderr>>
          /\ (ReadStep /\ line' = <<".LS">>)
                => /\ pc' = "exited"
                   /\ DocumentText(stdout') = DocumentText(stdout)
         ]_vars

\* `.LS 3,"-"` was handled by cmdh_list_start as the second line of a run
C16_Witness ==
    /\ lnum = 2
    /\ line = <<".LS", " ", "3", ",", "\"-\"">>
    /\ pc = "running"
    /\ Last(stdout) = Out("\\begin{itemize}", <<>>)

\* the driver calls textline for the line l: prose, or the text of C or LE
CallsTextline(l) ==
    \/ parse_string(l).kind = "raw" /\ l # <<>> /\ ~StartsWithDot(l)
    \/ parse_string(l).kind = "cmd" /\ parse_string(l).p.kw \in {".C", ".LE"}

\* the line l is a directive that sets the Flag Table, in_literal or in_appendices
IsStateDirective(l) ==
    /\ parse_string(l).kind = "cmd"
    /\ parse_string(l).p.kw \in {".FL", ".NFL", ".LT", ".EL", ".AX"}

\* C17: a step that calls textline leaves the Flag Table, in_literal and
\* in_appendices as they were, and a step that changes one of them processes
\* an FL, NFL, LT, EL or AX directive.
C17_TextlineFrame ==
    [][/\ (ReadStep /\ CallsTextline(line'))
             => UNCHANGED <<flagchars, in_literal, in_appendices>>
       /\ <<flagchars, in_literal, in_appendices>>' # <<flagchars, in_literal, in_appendices>>
             => ReadStep /\ IsStateDirective(line')
      ]_vars

\* a line of prose with a trigger was printed in literal mode, in the
\* appendices, as the third line of a run
C17_Witness ==
    /\ lnum = 3
    /\ line = <<"^", "a", "U", "_">>
    /\ Last(stdout) = Out("%s", line)
    /\ in_literal /\ in_appendices
    /\ flagchars = [c \in {"^"} |-> "uppercase"]

\* C18: a call of ireplace with a non-empty pattern returns.  Each iteration
\* that replaces resumes right after the inserted replacement, the text before
\* the resume position is never changed again, and the text left to scan gets
\* shorter; the text returned is the one ireplace computes.
C18_IreplaceTerminates ==
    /\ <>(call.pc = "returned")
    /\ [][call'.pc = "while"
             => /\ call'.idx >= call.idx + Len(call.new)
                /\ SubSeq(call'.text, call'.idx - Len(call.new) + 1, call'.idx) = call.new
                /\ SubSeq(call'.text, 1, call.idx) = SubSeq(call.text, 1, call.idx)
                /\ Len(call'.text) - call'.idx < Len(call.text) - call.idx
         ]_vars
    /\ [](call.pc = "returned" => call.text = ireplace(call.old, call.new, call.arg))

\* `a` was replaced by `aa` twice in `aba`, and the call returned `aabaa`
C18_Witness ==
    /\ call.pc = "returned"
    /\ call.old = <<"a">> /\ call.new = <<"a", "a">>
    /\ call.arg = <<"a", "b", "a">>
    /\ call.text = <<"a", "a", "b", "a", "a">>

\* what a scan that starts with no modifier pending appends to so for
\* position k of s
FreshPiece(s, k) ==
    IF Accepted(s, k) THEN <<s[k]>>
    ELSE IF Interpreted(s, k, "underline") THEN UnderlineOpen
    ELSE IF Interpreted(s, k, "substitute") THEN <<s[k]>>
    ELSE IF s[k] \in DOMAIN flagchars THEN <<>>
    ELSE IF UppercaseDue(s, k) THEN <<Upper(s[k])>>
    ELSE <<s[k]>>

RECURSIVE FreshSo(_, _)
FreshSo(s, k) == IF k = 0 THEN <<>> ELSE FreshSo(s, k - 1) \o FreshPiece(s, k)

\* C19: every line of prose is printed as a scan that starts with no
\* modifier pending and no close scheduled prints it, whatever the lines
\* before it ended with: a trigger pending at the end of a line has no effect
\* on a later line.
C19_LocalsReset ==
    Last(stdout).f = "%s"
    => Last(stdout).a =
           IF in_literal THEN line
           ELSE EscapeImage(FreshSo(line, Len(line))) \o Repeat("}", UnderlineCount(line))

\* with ^ bound to uppercase, `^` was printed as an empty line, which left
\* pending-uppercase set, and then `a` was printed as `a`
C19_Witness ==
    /\ flagchars = [c \in {"^"} |-> "uppercase"]
    /\ ~in_literal
    /\ lnum = 2
    /\ line = <<"a">>
    /\ stdout = <<Preamble, Out("%s", <<>>), Out("%s", <<"a">>)>>

\* the line l is a directive with a handler
IsHandled(l) == parse_string(l).kind = "cmd" /\ parse_string(l).p.kw \in Handled

\* C20: in literal mode a line is still parsed: a directive with a handler is
\* handled and not printed as text (FL binds its character, AX enters the
\* appendices and prints its section), a line that begins with '.' and is no
\* directive ends the run, and in_literal becomes false only by an EL directive.
C20_LiteralStillParses ==
    [][/\ (in_literal /\ ReadStep /\ IsHandled(line'))
             => /\ CountOut(stdout', "%s") = CountOut(stdout, "%s")
                /\ IsAppendixLine(line')
                      => in_appendices' /\ Last(stdout').f = "\\section{%s}"
                /\ \A f \in StdinFlags, d \in StdinChars :
                      (IsFlagLine(line', f, d) /\ pc' = "running")
                      => d \in DOMAIN flagchars' /\ flagchars'[d] = f
       /\ (in_literal /\ ReadStep /\ Unrecognized(line'))
             => pc' \in {"exited", "raised"}
       /\ (in_literal /\ ~in_literal')
             => /\ ReadStep
                /\ parse_string(line').kind = "cmd" /\ parse_string(line').p.kw = ".EL"
      ]_vars

\* in literal mode `.FL underline U` bound U and then `.AX T` was handled
C20_Witness ==
    /\ in_literal /\ in_appendices
    /\ lnum = 3
    /\ line = <<".AX", " ", "T">>
    /\ flagchars = [c \in {"^", "U"} |-> IF c = "^" THEN "uppercase" ELSE "underline"]
    /\ stdout = <<Preamble, Out("\\begin{verbatim}", <<>>), Out("\\appendix", <<>>),
                  Out("\\section{%s}", <<"T">>)>>

====
